---- MODULE Spec2Model ----
(***************************************************************************)
(* A model of scripts/batch_tx_builder.py and scripts/reset_replay.py.     *)
(*                                                                         *)
(* Python dicts are functions from field names to values; a dict the      *)
(* caller holds lives in `heap` and is referred to by its index, so that  *)
(* in-place mutation and aliasing are visible.  Optional arguments are    *)
(* None or Some(v).  A call either returns a value or raises.             *)
(***************************************************************************)
EXTENDS Integers, Sequences, FiniteSets, TLC

VARIABLES xrpl, heap, call, ret, log

vars == <<xrpl, heap, call, ret, log>>

\* ---------------------------------------------------------------- bounds

\* Number of inner records the caller holds.
MaxObjs == 2
\* Input lists up to this length are tried with every (account, mode, fee).
MaxShort == 2
\* Longest input list handed to build_batch_tx (the protocol's limit is 8).
MaxInner == 9

\* ------------------------------------------------------- python helpers

None == [some |-> FALSE]
Some(x) == [some |-> TRUE, v |-> x]

Return(x) == [kind |-> "return", val |-> x]
Raise(e, m) == [kind |-> "raise", exc |-> e, msg |-> m]
NoCall == [op |-> "none"]
NoRet == [kind |-> "none"]

\* d[k] = v
SetItem(d, k, v) == (k :> v) @@ d
\* d.get(k, default)
Get(d, k, default) == IF k \in DOMAIN d THEN d[k] ELSE default
\* d.setdefault(k, v)
SetDefault(d, k, v) == IF k \in DOMAIN d THEN d ELSE SetItem(d, k, v)

RECURSIVE BitAnd1(_, _)
\* a & b, bit by bit
BitAnd1(a, b) ==
    IF a = 0 \/ b = 0 THEN 0
    ELSE ((a % 2) * (b % 2)) + 2 * BitAnd1(a \div 2, b \div 2)

RECURSIVE BitOr1(_, _)
\* a | b, bit by bit
BitOr1(a, b) ==
    IF a = 0 THEN b
    ELSE IF b = 0 THEN a
    ELSE (IF a % 2 = 1 \/ b % 2 = 1 THEN 1 ELSE 0) + 2 * BitOr1(a \div 2, b \div 2)

\* The two operations on hexadecimal digits, as tables.
NibbleAnd == [p \in (0..15) \X (0..15) |-> BitAnd1(p[1], p[2])]
NibbleOr == [p \in (0..15) \X (0..15) |-> BitOr1(p[1], p[2])]

RECURSIVE BitAnd(_, _)
\* a & b on non-negative integers, a hexadecimal digit at a time
BitAnd(a, b) ==
    IF a = 0 \/ b = 0 THEN 0
    ELSE NibbleAnd[<<a % 16, b % 16>>] + 16 * BitAnd(a \div 16, b \div 16)

RECURSIVE BitOr(_, _)
\* a | b on non-negative integers, a hexadecimal digit at a time
BitOr(a, b) ==
    IF a = 0 THEN b
    ELSE IF b = 0 THEN a
    ELSE NibbleOr[<<a % 16, b % 16>>] + 16 * BitOr(a \div 16, b \div 16)

\* A str is a sequence of code points; str.encode() is UTF-8 and refuses
\* lone surrogates.
IsSurrogate(cp) == cp >= 55296 /\ cp <= 57343

CanEncode(s) == \A i \in 1..Len(s) : ~IsSurrogate(s[i])

Utf8(cp) ==
    IF cp < 128 THEN <<cp>>
    ELSE IF cp < 2048 THEN <<192 + (cp \div 64), 128 + (cp % 64)>>
    ELSE IF cp < 65536
         THEN <<224 + (cp \div 4096), 128 + ((cp \div 64) % 64), 128 + (cp % 64)>>
    ELSE <<240 + (cp \div 262144), 128 + ((cp \div 4096) % 64),
           128 + ((cp \div 64) % 64), 128 + (cp % 64)>>

RECURSIVE encode(_)
encode(s) == IF s = <<>> THEN <<>> ELSE Utf8(Head(s)) \o encode(Tail(s))

HexDigits == <<"0", "1", "2", "3", "4", "5", "6", "7",
               "8", "9", "a", "b", "c", "d", "e", "f">>

RECURSIVE hexlify(_)
\* binascii.hexlify(b).decode(), also bytes.hex(): two lowercase digits a byte
hexlify(b) ==
    IF b = <<>> THEN ""
    ELSE HexDigits[(Head(b) \div 16) + 1] \o HexDigits[(Head(b) % 16) + 1]
         \o hexlify(Tail(b))

\* ------------------------------------------------------------ constants

tfInnerBatchTxn == 1073741824
tfBatchAllOrNothing == 65536
tfBatchOnlyOne == 131072
tfBatchUntilFailure == 262144
tfBatchIndependent == 524288
tfTransferable == 8
tfMutable == 16

BatchModes == {tfBatchAllOrNothing, tfBatchOnlyOne, tfBatchUntilFailure,
               tfBatchIndependent}

StubMessage == "xrpl-py is not available; install xrpl to use this function."
ConfigMessage == "Please set ISSUER_SEED and NURSE_SEED environment variables."
DefaultRpcUrl == "https://s.altnet.rippletest.net:51234"

\* ------------------------------------------------- batch_tx_builder.py

\* `if uri is not None:` in place of `if uri:`
Truthy_isNotNone(o) == o.some

\* `if uri:` on an Optional[str]
Truthy(o) == o.some /\ o.v # <<>>

\* tx[k] = hexlify(arg.encode()).decode(), guarded by `if arg:`; r is the
\* state of the call so far (a raise ends it)
AddHexField(r, k, arg) ==
    IF r.kind = "raise" \/ ~Truthy(arg) THEN r
    ELSE IF ~CanEncode(arg.v) THEN Raise("UnicodeEncodeError", "surrogates not allowed")
    ELSE Return(SetItem(r.val, k, hexlify(encode(arg.v))))

build_didset_tx(account, uri, data, did_document, fee) ==
    LET tx == [TransactionType |-> "DIDSet", Account |-> account,
               Fee |-> fee, Flags |-> 0]
    IN AddHexField(AddHexField(AddHexField(Return(tx), "URI", uri),
                               "Data", data),
                   "DIDDocument", did_document)

build_credential_accept_tx(account, issuer, credential_type_hex, fee) ==
    Return([TransactionType |-> "CredentialAccept", Account |-> account,
            Issuer |-> issuer, CredentialType |-> credential_type_hex,
            Fee |-> fee, Flags |-> 0])

build_nft_mint_tx(account, issuer, uri_hex, transfer_fee, taxon, flags, fee) ==
    LET tx == [TransactionType |-> "NFTokenMint", Account |-> account,
               NFTokenTaxon |-> taxon, Fee |-> fee, Flags |-> flags,
               URI |-> uri_hex]
        tx1 == IF issuer.some /\ issuer.v # "" THEN SetItem(tx, "Issuer", issuer.v)
               ELSE tx
        tx2 == IF transfer_fee.some THEN SetItem(tx1, "TransferFee", transfer_fee.v)
               ELSE tx1
    IN Return(tx2)

\* tx["Flags"] = 0x40000000: the flag overwrites the record's flags
WrapFlags_overwrite(tx) == SetItem(tx, "Flags", tfInnerBatchTxn)

\* tx["Flags"] = inner_flags ^ 0x40000000: the flag is toggled
WrapFlags_toggle(tx) ==
    LET inner_flags == Get(tx, "Flags", 0)
    IN IF BitAnd(inner_flags, tfInnerBatchTxn) = 0
       THEN SetItem(tx, "Flags", inner_flags + tfInnerBatchTxn)
       ELSE SetItem(tx, "Flags", inner_flags - tfInnerBatchTxn)

\* The body of the loop of build_batch_tx on one inner record.
WrapFlags(tx) ==
    LET inner_flags == Get(tx, "Flags", 0)
    IN IF BitAnd(inner_flags, tfInnerBatchTxn) = 0
       THEN SetItem(tx, "Flags", BitOr(inner_flags, tfInnerBatchTxn))
       ELSE tx

\* tx["Sequence"] = 1: a Sequence the record had is overwritten
WrapSequence_overwrite(tx) == SetItem(tx, "Sequence", 1)

WrapSequence(tx) == SetDefault(tx, "Sequence", 1)

\* tx.setdefault("Fee", "0"): a fee the caller supplied is kept
WrapFee_ifAbsent(tx) == SetDefault(tx, "Fee", "0")

WrapFee(tx) == SetItem(tx, "Fee", "0")

WrapInner(tx) == WrapFee(WrapSequence(WrapFlags(tx)))

RECURSIVE WrapAll(_, _)
\* The loop: the records are mutated in place, in list order.
WrapAll(h, inner_txs) ==
    IF inner_txs = <<>> THEN h
    ELSE WrapAll([h EXCEPT ![Head(inner_txs)] = WrapInner(@)], Tail(inner_txs))

\* inner_list.insert(0, ...): the entries end up in reverse order
InnerList_reversed(inner_txs) ==
    [i \in 1..Len(inner_txs) |->
        [RawTransaction |-> inner_txs[Len(inner_txs) + 1 - i]]]

\* inner_list: one {"RawTransaction": tx} per input, tx being the same object
InnerList(inner_txs) ==
    [i \in 1..Len(inner_txs) |-> [RawTransaction |-> inner_txs[i]]]

\* a mode_flag that is none of the four modes is replaced by all-or-nothing
BatchDict_defaultMode(account, inner_list, mode_flag, fee) ==
    [TransactionType |-> "Batch", Account |-> account,
     Flags |-> IF mode_flag \in BatchModes THEN mode_flag ELSE tfBatchAllOrNothing,
     RawTransactions |-> inner_list, Fee |-> fee]

BatchDict(account, inner_list, mode_flag, fee) ==
    [TransactionType |-> "Batch", Account |-> account, Flags |-> mode_flag,
     RawTransactions |-> inner_list, Fee |-> fee]

\* the protocol's bounds enforced locally: 2 to 8 inner records
build_batch_tx_bounded(h, account, inner_txs, mode_flag, fee) ==
    IF Len(inner_txs) < 2 \/ Len(inner_txs) > 8
    THEN [heap |-> h, ret |-> Raise("ValueError", "a batch holds 2 to 8 transactions")]
    ELSE [heap |-> WrapAll(h, inner_txs),
          ret |-> Return(BatchDict(account, InnerList(inner_txs), mode_flag, fee))]

\* tx = dict(tx) at the top of the loop: the entries are fresh copies and
\* the caller's records are left as they were
build_batch_tx_copy(h, account, inner_txs, mode_flag, fee) ==
    [heap |-> h \o [i \in 1..Len(inner_txs) |-> WrapInner(h[inner_txs[i]])],
     ret |-> Return(BatchDict(account,
                              [i \in 1..Len(inner_txs) |->
                                  [RawTransaction |-> Len(h) + i]],
                              mode_flag, fee))]

\* build_batch_tx on heap h: the heap after the call and what it returns
build_batch_tx(h, account, inner_txs, mode_flag, fee) ==
    [heap |-> WrapAll(h, inner_txs),
     ret |-> Return(BatchDict(account, InnerList(inner_txs), mode_flag, fee))]

\* sign_batch under library state lib; o holds what the external library
\* does on this call.  The result is what is returned or raised and the calls
\* that reached the library, in order.
sign_batch(lib, wallets, o) ==
    IF lib = "missing"
    THEN [ret |-> Raise("ModuleNotFoundError", "No module named 'xrpl'"),
          log |-> <<>>]
    ELSE IF ~o.legacy_helper
    THEN [ret |-> Raise("ImportError",
                        "cannot import name 'safe_sign_and_autofill_transaction'"),
          log |-> <<>>]
    ELSE IF ~o.convert
    THEN [ret |-> Raise("XRPLException", "transaction_from_dict"),
          log |-> <<[fn |-> "transaction_from_dict"]>>]
    ELSE IF wallets = <<>>
    THEN [ret |-> Raise("IndexError", "list index out of range"),
          log |-> <<[fn |-> "transaction_from_dict"]>>]
    ELSE LET signing == [fn |-> "safe_sign_and_autofill_transaction",
                         wallet |-> wallets[1]]
         IN IF ~o.sign
            THEN [ret |-> Raise("XRPLException", "sign"),
                  log |-> <<[fn |-> "transaction_from_dict"], signing>>]
            ELSE [ret |-> Return([signed_by |-> wallets[1]]),
                  log |-> <<[fn |-> "transaction_from_dict"], signing>>]

\* send_reliable_submission as batch_tx_builder binds it: the stub when the
\* import at the top of the file failed, the library's function otherwise.
send_reliable_submission(lib, signed_tx, o, sofar) ==
    IF lib # "imported"
    THEN [ret |-> Raise("RuntimeError", StubMessage), log |-> sofar]
    ELSE LET sending == [fn |-> "send_reliable_submission", tx |-> signed_tx]
         IN IF ~o.send
            THEN [ret |-> Raise("XRPLException", "send"),
                  log |-> Append(sofar, sending)]
            ELSE [ret |-> Return(o.response), log |-> Append(sofar, sending)]

\* a failed send is tried once more
submit_batch_retry(lib, wallets, o) ==
    LET s == sign_batch(lib, wallets, o)
        first == send_reliable_submission(lib, s.ret.val, o, s.log)
    IN IF s.ret.kind = "raise" THEN s
       ELSE IF first.ret.kind = "raise"
       THEN send_reliable_submission(lib, s.ret.val, o, first.log)
       ELSE first

submit_batch(lib, wallets, o) ==
    LET s == sign_batch(lib, wallets, o)
    IN IF s.ret.kind = "raise" THEN s
       ELSE send_reliable_submission(lib, s.ret.val, o, s.log)

\* ------------------------------------------------------ reset_replay.py

Digits == <<"0", "1", "2", "3", "4", "5", "6", "7", "8", "9">>

RECURSIVE str(_)
\* str(n) of a non-negative int
str(n) == IF n < 10 THEN Digits[n + 1] ELSE str(n \div 10) \o Digits[(n % 10) + 1]

\* os.environ.get(name) / os.environ.get(name, default)
EnvGet(env, name) == env[name]
EnvGetDefault(env, name, default) == IF env[name].some THEN env[name].v ELSE default

\* `issuer_seed or nurse_seed`: one seed is enough
SeedsPresent_either(issuer_seed, nurse_seed) ==
    (issuer_seed.some /\ issuer_seed.v # "") \/ (nurse_seed.some /\ nurse_seed.v # "")

\* `issuer_seed and nurse_seed`: both set and not empty
SeedsPresent(issuer_seed, nurse_seed) ==
    (issuer_seed.some /\ issuer_seed.v # "") /\ (nurse_seed.some /\ nurse_seed.v # "")

\* Wallet(seed=...).classic_address: derived from the seed by the library
classic_address(seed) == "r(" \o seed \o ")"

\* "did:xrpl:nurse12345"
did_uri == <<100, 105, 100, 58, 120, 114, 112, 108, 58, 110, 117, 114, 115,
             101, 49, 50, 51, 52, 53>>
\* "nurse_license"
credential_type == <<110, 117, 114, 115, 101, 95, 108, 105, 99, 101, 110, 115, 101>>
\* "ipfs://cid-of-license-metadata"
metadata_ipfs == <<105, 112, 102, 115, 58, 47, 47, 99, 105, 100, 45, 111, 102,
                   45, 108, 105, 99, 101, 110, 115, 101, 45, 109, 101, 116, 97,
                   100, 97, 116, 97>>

\* The inner records main builds, as a heap of its own: did_tx,
\* cred_accept_tx, nft_tx.
MainInner(issuer_address, nurse_address) ==
    << build_didset_tx(nurse_address, Some(did_uri), None, None, "0").val,
       build_credential_accept_tx(nurse_address, issuer_address,
                                  hexlify(encode(credential_type)), "0").val,
       build_nft_mint_tx(issuer_address, Some(nurse_address),
                         hexlify(encode(metadata_ipfs)), Some(750), 0,
                         tfTransferable + tfMutable, "0").val >>

\* main() under environment env; o holds what the library and the endpoint
\* do on this run.  The result is what main returns or raises and its calls
\* into the library, in order.
main(env, o) ==
    LET rpc_url == EnvGetDefault(env, "RPC_URL", DefaultRpcUrl)
        issuer_seed == EnvGet(env, "ISSUER_SEED")
        nurse_seed == EnvGet(env, "NURSE_SEED")
        client == [fn |-> "JsonRpcClient", url |-> rpc_url]
        issuer_address == classic_address(issuer_seed.v)
        nurse_address == classic_address(nurse_seed.v)
        inner_txs == <<1, 2, 3>>
        built == build_batch_tx(MainInner(issuer_address, nurse_address),
                                issuer_address, inner_txs, tfBatchAllOrNothing,
                                str(Len(inner_txs) * 10))
        signing == [fn |-> "autofill_and_sign", tx |-> built.ret.val,
                    inner |-> built.heap, wallet |-> issuer_address]
        sending == [fn |-> "send_reliable_submission",
                    tx |-> [signed_by |-> issuer_address]]
    IN IF ~SeedsPresent(issuer_seed, nurse_seed)
       THEN [ret |-> Raise("RuntimeError", ConfigMessage), log |-> <<>>]
       ELSE IF ~o.issuer_wallet
       THEN [ret |-> Raise("XRPLException", "Wallet"), log |-> <<client>>]
       ELSE IF ~o.nurse_wallet
       THEN [ret |-> Raise("XRPLException", "Wallet"),
             log |-> <<client, [fn |-> "Wallet", seed |-> issuer_seed.v]>>]
       ELSE LET wallets == <<client, [fn |-> "Wallet", seed |-> issuer_seed.v],
                             [fn |-> "Wallet", seed |-> nurse_seed.v]>>
            IN IF ~o.sign
               THEN [ret |-> Raise("XRPLException", "sign"),
                     log |-> Append(wallets, signing)]
               ELSE IF ~o.send
               THEN [ret |-> Raise("XRPLException", "send"),
                     log |-> wallets \o <<signing, sending>>]
               ELSE [ret |-> Return(None),
                     log |-> wallets \o <<signing, sending,
                                          [fn |-> "print", val |-> o.response]>>]

\* --------------------------------------------------------------- inputs

Fees == {"0", "12"}

\* "", a string of 1-, 2-, 3- and 4-byte characters, a lone surrogate
SampleStrs == {<<>>, <<97, 233, 8364, 128512>>, <<55296>>}
OptStrs == {None} \cup {Some(s) : s \in SampleStrs}

MintFlags == {0, tfTransferable + tfMutable, tfInnerBatchTxn + tfTransferable}
OptIssuers == {None, Some(""), Some("rNurse")}
OptTransferFees == {None, Some(0), Some(750)}

WalletLists == {<<>>, <<"issuer">>, <<"issuer", "nurse">>, <<"nurse", "issuer">>}
Responses == {"tesSUCCESS", "tecBATCH_FAILURE"}

\* What the external library does during one call.
Outcomes == [legacy_helper : BOOLEAN, convert : BOOLEAN, sign : BOOLEAN,
             send : BOOLEAN, response : Responses]

\* '{"name": "Shift Credit", "symbol": "SHIFT"}'
mpt_metadata == <<123, 34, 110, 97, 109, 101, 34, 58, 32, 34, 83, 104, 105, 102,
                  116, 32, 67, 114, 101, 100, 105, 116, 34, 44, 32, 34, 115, 121,
                  109, 98, 111, 108, 34, 58, 32, 34, 83, 72, 73, 70, 84, 34, 125>>

\* mpt_create_tx of reset_replay.main: a record written by hand, with a Sequence
mpt_create_tx(account) ==
    [TransactionType |-> "MPTokenIssuanceCreate", Account |-> account,
     AssetScale |-> 0, MaximumAmount |-> "1000000", Flags |-> 4 + 8 + 32,
     MPTokenMetadata |-> hexlify(encode(mpt_metadata)), Fee |-> "0",
     Sequence |-> 1]

\* A hand-written record with neither Flags nor Fee, and its own Sequence.
BareDict == [TransactionType |-> "DIDSet", Account |-> "rNurse", Sequence |-> 7]

\* The records a caller holds before wrapping: results of the builders and
\* hand-written dicts.
InnerPool ==
    << build_didset_tx("rNurse", Some(<<97>>), None, None, "0").val,
       build_nft_mint_tx("rIssuer", Some("rNurse"), "69", Some(750), 0,
                         tfTransferable + tfMutable, "0").val,
       build_credential_accept_tx("rNurse", "rIssuer", "6e", "12").val,
       BareDict,
       mpt_create_tx("rIssuer"),
       build_nft_mint_tx("rIssuer", None, "69", None, 0,
                         tfInnerBatchTxn + tfTransferable, "12").val >>

\* The caller's records at the start: up to MaxObjs consecutive records of
\* the pool (taken cyclically).
InitHeaps ==
    { [i \in 1..n |-> InnerPool[((s + i - 2) % Len(InnerPool)) + 1]] :
      n \in 0..MaxObjs, s \in 1..Len(InnerPool) }

Cycle(s, k, n) == [i \in 1..k |-> ((s + i - 2) % n) + 1]

\* Short lists of held records: up to MaxShort long, each record alone, the
\* same record twice, all of them in reverse order.
ShortLists(n) ==
    IF n = 0 THEN {<<>>}
    ELSE {Cycle(1, k, n) : k \in 0..MaxShort}
         \cup {<<s>> : s \in 1..n}
         \cup {<<s, s>> : s \in 1..n}
         \cup {[i \in 1..n |-> n + 1 - i]}

\* Long lists: every length up to MaxInner, past the protocol's limit of 8.
LongLists(n) ==
    IF n = 0 THEN {} ELSE {Cycle(1, k, n) : k \in (MaxShort + 1)..MaxInner}

\* (account, mode_flag, fee): the four modes, no mode, two modes at once
BatchArgs ==
    { <<"rIssuer", tfBatchAllOrNothing, "20">>,
      <<"rPayer", tfBatchOnlyOne, "0">>,
      <<"rIssuer", tfBatchUntilFailure, "30">>,
      <<"rNurse", tfBatchIndependent, "20">>,
      <<"rIssuer", 0, "20">>,
      <<"rPayer", tfBatchAllOrNothing + tfBatchOnlyOne, "10">> }

\* The calls of build_batch_tx: (inner_txs, (account, mode_flag, fee)).
BatchInputs(n) ==
    (ShortLists(n) \X BatchArgs)
    \cup (LongLists(n) \X {<<"rPayer", tfBatchAllOrNothing, "20">>})

\* The environment of a run of reset_replay.py: each variable unset, empty
\* or set.
Environments ==
    [RPC_URL : {None, Some(""), Some("https://devnet.example:51234")},
     ISSUER_SEED : {None, Some(""), Some("sIssuer"), Some("sOther")},
     NURSE_SEED : {None, Some(""), Some("sNurse"), Some("sOther")}]

MainOutcomes == [issuer_wallet : BOOLEAN, nurse_wallet : BOOLEAN, sign : BOOLEAN,
                 send : BOOLEAN, response : Responses]

\* -------------------------------------------------------------- actions

Call_build_didset_tx ==
    \E account \in {"rNurse"}, uri \in OptStrs, data \in OptStrs,
       did_document \in OptStrs, fee \in Fees :
        /\ call' = [op |-> "build_didset_tx", account |-> account, uri |-> uri,
                    data |-> data, did_document |-> did_document, fee |-> fee]
        /\ ret' = build_didset_tx(account, uri, data, did_document, fee)
        /\ log' = <<>>
        /\ UNCHANGED <<xrpl, heap>>

Call_build_credential_accept_tx ==
    \E account \in {"rNurse"}, issuer \in {"rIssuer"},
       credential_type_hex \in {"6e", ""}, fee \in Fees :
        /\ call' = [op |-> "build_credential_accept_tx", account |-> account,
                    issuer |-> issuer,
                    credential_type_hex |-> credential_type_hex, fee |-> fee]
        /\ ret' = build_credential_accept_tx(account, issuer,
                                             credential_type_hex, fee)
        /\ log' = <<>>
        /\ UNCHANGED <<xrpl, heap>>

Call_build_nft_mint_tx ==
    \E account \in {"rIssuer"}, issuer \in OptIssuers, uri_hex \in {"69"},
       transfer_fee \in OptTransferFees, taxon \in {0}, flags \in MintFlags,
       fee \in Fees :
        /\ call' = [op |-> "build_nft_mint_tx", account |-> account,
                    issuer |-> issuer, uri_hex |-> uri_hex,
                    transfer_fee |-> transfer_fee, taxon |-> taxon,
                    flags |-> flags, fee |-> fee]
        /\ ret' = build_nft_mint_tx(account, issuer, uri_hex, transfer_fee,
                                    taxon, flags, fee)
        /\ log' = <<>>
        /\ UNCHANGED <<xrpl, heap>>

Call_build_batch_tx ==
    \E in \in BatchInputs(Len(heap)) :
        LET inner_txs == in[1]
            account == in[2][1]
            mode_flag == in[2][2]
            fee == in[2][3]
            r == build_batch_tx(heap, account, inner_txs, mode_flag, fee)
        IN /\ call' = [op |-> "build_batch_tx", account |-> account,
                       inner_txs |-> inner_txs, mode_flag |-> mode_flag,
                       fee |-> fee, pre |-> heap]
           /\ heap' = r.heap
           /\ ret' = r.ret
           /\ log' = <<>>
           /\ UNCHANGED xrpl

Call_sign_batch ==
    \E wallets \in WalletLists, o \in Outcomes :
        LET r == sign_batch(xrpl, wallets, o)
        IN /\ call' = [op |-> "sign_batch", wallets |-> wallets, o |-> o]
           /\ ret' = r.ret
           /\ log' = r.log
           /\ UNCHANGED <<xrpl, heap>>

Call_submit_batch ==
    \E wallets \in WalletLists, o \in Outcomes :
        LET r == submit_batch(xrpl, wallets, o)
        IN /\ call' = [op |-> "submit_batch", wallets |-> wallets, o |-> o]
           /\ ret' = r.ret
           /\ log' = r.log
           /\ UNCHANGED <<xrpl, heap>>

Call_main ==
    \E env \in Environments, o \in MainOutcomes :
        LET r == main(env, o)
        IN /\ call' = [op |-> "main", env |-> env]
           /\ ret' = r.ret
           /\ log' = r.log
           /\ UNCHANGED <<xrpl, heap>>

\* The module as imported: the library absent, present but the import at the
\* top of batch_tx_builder.py failed on a name, or imported.
LibStates == {"missing", "stubbed", "imported"}

\* The functions of batch_tx_builder.py called in any order, the caller
\* holding no inner record.
Init ==
    /\ xrpl \in LibStates
    /\ heap = <<>>
    /\ call = NoCall
    /\ ret = NoRet
    /\ log = <<>>

Next ==
    \/ Call_build_didset_tx
    \/ Call_build_credential_accept_tx
    \/ Call_build_nft_mint_tx
    \/ Call_build_batch_tx
    \/ Call_sign_batch
    \/ Call_submit_batch

Spec == Init /\ [][Next]_vars

\* build_batch_tx on records the caller holds, called again and again.
InitBatch ==
    /\ xrpl = "imported"
    /\ heap \in InitHeaps
    /\ call = NoCall
    /\ ret = NoRet
    /\ log = <<>>

NextBatch == Call_build_batch_tx

SpecBatch == InitBatch /\ [][NextBatch]_vars

\* reset_replay.py run as a script; it imports only with the library present.
InitMain ==
    /\ xrpl \in {"stubbed", "imported"}
    /\ heap = <<>>
    /\ call = NoCall
    /\ ret = NoRet
    /\ log = <<>>

NextMain == Call_main

SpecMain == InitMain /\ [][NextMain]_vars

\* --------------------------------------------------------------- claims

\* The records the last call of build_batch_tx was handed.
Wrapped == {call.inner_txs[i] : i \in 1..Len(call.inner_txs)}

InnerBitSet(flags) == BitAnd(flags, tfInnerBatchTxn) = tfInnerBatchTxn

\* C1: after build_batch_tx every inner record's Flags has the inner-batch
\* bit 0x40000000 set and keeps every bit it had on input (Flags absent
\* counting as 0): the result is the input Flags OR 0x40000000.
C1_FlagsOrInnerBit ==
    call.op = "build_batch_tx" =>
        \A id \in Wrapped :
            LET old == Get(call.pre[id], "Flags", 0)
                new == heap[id]
            IN /\ "Flags" \in DOMAIN new
               /\ InnerBitSet(new.Flags)
               /\ BitAnd(new.Flags, old) = old
               /\ new.Flags = BitOr(old, tfInnerBatchTxn)

\* A record without Flags and a record with other bits set were wrapped.
C1_Witness ==
    /\ call.op = "build_batch_tx"
    /\ \E id \in Wrapped : /\ "Flags" \notin DOMAIN call.pre[id]
                           /\ heap[id].Flags = tfInnerBatchTxn
    /\ \E id \in Wrapped : /\ "Flags" \in DOMAIN call.pre[id]
                           /\ call.pre[id].Flags = 4 + 8 + 32
                           /\ heap[id].Flags = tfInnerBatchTxn + 4 + 8 + 32

\* C2: after build_batch_tx every inner record's Fee is "0", whatever the
\* caller supplied (another fee, or no Fee at all).
C2_FeeZero ==
    call.op = "build_batch_tx" =>
        \A id \in Wrapped : "Fee" \in DOMAIN heap[id] /\ heap[id].Fee = "0"

\* A record with fee "12" and a record without Fee were wrapped.
C2_Witness ==
    /\ call.op = "build_batch_tx"
    /\ \E id \in Wrapped : /\ "Fee" \in DOMAIN call.pre[id]
                           /\ call.pre[id].Fee = "12"
                           /\ heap[id].Fee = "0"
    /\ \E id \in Wrapped : "Fee" \notin DOMAIN call.pre[id] /\ heap[id].Fee = "0"

\* C3 as stated: every batch record build_batch_tx returns carries exactly
\* one of the four execution-mode selectors in Flags, whatever mode_flag was.
C3_ExactlyOneMode ==
    call.op = "build_batch_tx" => ret.val.Flags \in BatchModes

\* C3 as amended: mode_flag is stored unvalidated, so the batch record
\* carries one of the four selectors exactly when mode_flag is one of them.
C3_ModeAsPassed ==
    call.op = "build_batch_tx" =>
        (ret.val.Flags \in BatchModes <=> call.mode_flag \in BatchModes)

\* A batch of two records built with the only-one mode.
C3_Witness ==
    /\ call.op = "build_batch_tx"
    /\ call.mode_flag = tfBatchOnlyOne
    /\ ret.val.Flags = tfBatchOnlyOne
    /\ Len(call.inner_txs) = 2

Builders == {"build_didset_tx", "build_credential_accept_tx", "build_nft_mint_tx",
             "build_batch_tx"}

\* C4: with the library missing, sign_batch and submit_batch raise the
\* stub's RuntimeError "xrpl-py is not available...", and the four builders
\* fail on nothing but their own arguments.
C4_StubErrorWhenMissing ==
    xrpl = "missing" =>
        /\ call.op \in {"sign_batch", "submit_batch"} =>
               ret = Raise("RuntimeError", StubMessage)
        /\ call.op \in Builders =>
               ret.kind = "return" \/ ret.exc = "UnicodeEncodeError"

\* The environment variables main reads.
EnvNames == {"RPC_URL", "ISSUER_SEED", "NURSE_SEED"}

C6_NoSizeRejected ==
    call.op = "build_batch_tx" =>
        /\ ret.kind = "return"
        /\ ret.val.TransactionType = "Batch"
        /\ Len(ret.val.RawTransactions) = Len(call.inner_txs)

\* A batch of more than 8 inner records was returned.
C6_Witness ==
    /\ call.op = "build_batch_tx"
    /\ Len(call.inner_txs) > 8
    /\ ret.kind = "return"
    /\ ret.val.TransactionType = "Batch"

\* C7: the outer record has one wrapped entry per input record, in input
\* order, each the (wrapped) input record; Fee is the fee passed, Flags the
\* mode passed, Account the payer.
C7_OuterRecord ==
    call.op = "build_batch_tx" =>
        /\ ret.kind = "return"
        /\ Len(ret.val.RawTransactions) = Len(call.inner_txs)
        /\ \A i \in 1..Len(call.inner_txs) :
               /\ ret.val.RawTransactions[i] = [RawTransaction |-> call.inner_txs[i]]
               /\ InnerBitSet(heap[ret.val.RawTransactions[i].RawTransaction].Flags)
        /\ ret.val.Fee = call.fee
        /\ ret.val.Flags = call.mode_flag
        /\ ret.val.Account = call.account

\* Two different records, mode 65536, fee "20": two entries in input order.
C7_Witness ==
    /\ call.op = "build_batch_tx"
    /\ call.inner_txs = <<2, 1>>
    /\ call.mode_flag = 65536
    /\ call.fee = "20"
    /\ Len(ret.val.RawTransactions) = 2
    /\ ret.val.RawTransactions[1].RawTransaction = 2
    /\ ret.val.Fee = "20"
    /\ ret.val.Flags = 65536

\* C8: an inner record whose Flags already has the inner-batch bit set
\* keeps exactly its Flags value when build_batch_tx wraps it.
C8_FlagsIdempotent ==
    call.op = "build_batch_tx" =>
        \A id \in Wrapped :
            ("Flags" \in DOMAIN call.pre[id] /\ InnerBitSet(call.pre[id].Flags)) =>
                heap[id].Flags = call.pre[id].Flags

\* A record wrapped by an earlier call (mint flags 24 with the inner bit, fee
\* "0", Sequence 1) was wrapped again.
C8_Witness ==
    /\ call.op = "build_batch_tx"
    /\ \E id \in Wrapped :
           /\ "Flags" \in DOMAIN call.pre[id]
           /\ call.pre[id].Flags = tfInnerBatchTxn + tfTransferable + tfMutable
           /\ "Sequence" \in DOMAIN call.pre[id]
           /\ heap[id].Flags = call.pre[id].Flags

\* The optional payload fields of build_didset_tx and the arguments they
\* come from.
DidFields(c) == {<<"URI", c.uri>>, <<"Data", c.data>>, <<"DIDDocument", c.did_document>>}

\* What Python gives for hexlify(s.encode()).decode() on the sample strings.
PythonHex(s) ==
    IF s = <<97, 233, 8364, 128512>> THEN "61c3a9e282acf09f9880"
    ELSE IF s = <<97>> THEN "61"
    ELSE ""

\* C9 as stated: each of URI, Data, DIDDocument is in the record
\* build_didset_tx returns exactly when the caller provided the argument.
C9_FieldIffProvided ==
    (call.op = "build_didset_tx" /\ ret.kind = "return") =>
        \A f \in DidFields(call) : f[1] \in DOMAIN ret.val <=> f[2].some

\* C9 as amended: each field is in the returned record, hex-encoded, exactly
\* when the caller provided a non-empty value; with none provided the
\* record has none of the three.
C9_FieldIffNonEmpty ==
    (call.op = "build_didset_tx" /\ ret.kind = "return") =>
        /\ \A f \in DidFields(call) :
               /\ f[1] \in DOMAIN ret.val <=> (f[2].some /\ f[2].v # <<>>)
               /\ f[1] \in DOMAIN ret.val => ret.val[f[1]] = PythonHex(f[2].v)
        /\ (\A f \in DidFields(call) : ~f[2].some) =>
               DOMAIN ret.val = {"TransactionType", "Account", "Fee", "Flags"}

\* uri given, data not given, did_document empty: URI alone, hex-encoded.
C9_Witness ==
    /\ call.op = "build_didset_tx"
    /\ call.uri = Some(<<97, 233, 8364, 128512>>)
    /\ call.data = None
    /\ call.did_document = Some(<<>>)
    /\ ret.kind = "return"
    /\ ret.val.URI = "61c3a9e282acf09f9880"
    /\ "Data" \notin DOMAIN ret.val
    /\ "DIDDocument" \notin DOMAIN ret.val

\* The places in the log of the calls of function fn.
Calls(fn) == {i \in 1..Len(log) : log[i].fn = fn}

\* C10: submit_batch signs at most once, with the first wallet, sends at
\* most once and only what a successful signing returned, returns the
\* endpoint's response as it is, and lets a failure of either step through
\* without a retry and without a send after a failed signing.
C10_SignThenSendOnce ==
    call.op = "submit_batch" =>
        LET signs == Calls("safe_sign_and_autofill_transaction")
            sends == Calls("send_reliable_submission")
        IN /\ Cardinality(signs) <= 1
           /\ Cardinality(sends) <= 1
           /\ \A i \in signs : call.wallets # <<>> /\ log[i].wallet = call.wallets[1]
           /\ \A j \in sends :
                  /\ \E i \in signs : i < j
                  /\ call.o.sign
                  /\ log[j].tx = [signed_by |-> call.wallets[1]]
           /\ (signs # {} /\ ~call.o.sign) =>
                  ret = Raise("XRPLException", "sign") /\ sends = {}
           /\ (sends # {} /\ ~call.o.send) => ret = Raise("XRPLException", "send")
           /\ ret.kind = "return" => sends # {} /\ ret.val = call.o.response
           /\ ret.kind \in {"return", "raise"}

\* Signed with the first of two wallets, sent, and the response returned.
C10_Witness ==
    /\ call.op = "submit_batch"
    /\ call.wallets = <<"issuer", "nurse">>
    /\ Len(log) = 3
    /\ log[2] = [fn |-> "safe_sign_and_autofill_transaction", wallet |-> "issuer"]
    /\ log[3] = [fn |-> "send_reliable_submission", tx |-> [signed_by |-> "issuer"]]
    /\ ret = Return("tecBATCH_FAILURE")

\* C11: after build_batch_tx an inner record's Sequence is the placeholder 1
\* if it had none on input, and its own Sequence unchanged if it had one.
C11_SequencePlaceholder ==
    call.op = "build_batch_tx" =>
        \A id \in Wrapped :
            /\ "Sequence" \in DOMAIN heap[id]
            /\ "Sequence" \notin DOMAIN call.pre[id] => heap[id].Sequence = 1
            /\ "Sequence" \in DOMAIN call.pre[id] =>
                   heap[id].Sequence = call.pre[id].Sequence

\* A record with Sequence 7 and a record without Sequence were wrapped.
C11_Witness ==
    /\ call.op = "build_batch_tx"
    /\ \E id \in Wrapped : /\ "Sequence" \in DOMAIN call.pre[id]
                           /\ call.pre[id].Sequence = 7
                           /\ heap[id].Sequence = 7
    /\ \E id \in Wrapped : /\ "Sequence" \notin DOMAIN call.pre[id]
                           /\ heap[id].Sequence = 1

\* The fields build_batch_tx writes in an inner record.
Stamped == {"Flags", "Fee", "Sequence"}

\* C12: build_batch_tx mutates the caller's records in place and changes
\* nothing but Flags, Fee and Sequence: no record is created, a record not in
\* the list is untouched, every other field of a listed record is as it was,
\* the caller's record itself carries the three fields, and each wrapped
\* entry is the caller's record (the same object), not a copy.
C12_InPlaceFrame ==
    call.op = "build_batch_tx" =>
        /\ Len(heap) = Len(call.pre)
        /\ \A id \in (1..Len(heap)) \ Wrapped : heap[id] = call.pre[id]
        /\ \A id \in Wrapped :
               /\ Stamped \subseteq DOMAIN heap[id]
               /\ DOMAIN heap[id] \ Stamped = DOMAIN call.pre[id] \ Stamped
               /\ \A k \in DOMAIN call.pre[id] \ Stamped :
                      heap[id][k] = call.pre[id][k]
        /\ \A i \in 1..Len(call.inner_txs) :
               ret.val.RawTransactions[i].RawTransaction = call.inner_txs[i]

\* Of two records held, the one with fee "12" and no Sequence was wrapped:
\* the caller's record changed, its Issuer did not, the entry is that record,
\* and the record left out is as it was.
C12_Witness ==
    /\ call.op = "build_batch_tx"
    /\ Len(heap) = 2
    /\ Len(call.inner_txs) = 1
    /\ \E id \in Wrapped :
           /\ call.pre[id].TransactionType = "CredentialAccept"
           /\ call.pre[id].Fee = "12"
           /\ "Sequence" \notin DOMAIN call.pre[id]
           /\ heap[id] # call.pre[id]
           /\ heap[id].Fee = "0"
           /\ heap[id].Issuer = call.pre[id].Issuer
           /\ ret.val.RawTransactions[1].RawTransaction = id
    /\ \E id \in (1..Len(heap)) \ Wrapped : heap[id] = call.pre[id]

====
